---- MODULE Spec2Model ----
(***************************************************************************)
(* A model of the deltaDNA client session of src/deltaDNAConnect.py.       *)
(*                                                                         *)
(* The session holds a bearer token, an authorization header and the       *)
(* environment directory fetched by the constructor.  Every public method  *)
(* is one action: it draws the status of each remote call it makes from    *)
(* Statuses, computes what the Python code computes (a value, None, or an  *)
(* uncaught exception) and records it in ret.  The remote service is the   *)
(* environment: it keeps the events (with their linked parameters) and the *)
(* parameters, and changes them only when a POST of the client answers 200.*)
(*                                                                         *)
(* pandas behaviour that the code relies on is modelled as pandas defines  *)
(* it: Series[0] on an integer index is a lookup of the LABEL 0,           *)
(* Series.item() needs exactly one element, pd.concat([]) raises, and      *)
(* Series.replace(dict) leaves the values it does not name untouched.      *)
(***************************************************************************)
EXTENDS Integers, Sequences, FiniteSets

VARIABLES
    token,          \* self._token: "idToken" or "None"
    header,         \* self._header
    gameList,       \* self._game_list: [kind |-> "None" | "table", rows]
    remoteEvents,   \* the remote's events, in the order GET /events lists them
    remoteParams,   \* the remote's parameters, in the order GET /event-parameters lists them
    ret             \* the outcome of the last public call

vars == <<token, header, gameList, remoteEvents, remoteParams, ret>>

----------------------------------------------------------------------------
(* Bounds and input sets *)

\* The remote refuses a create-event POST once it holds this many events.
MaxEvents == 2

\* The remote refuses a create-parameter POST once it holds this many parameters.
MaxParams == 2

Statuses == {200, 500}

EnvIds == {101, 102}

\* The names events are created and looked up with.
EventNames == {"e1"}

\* The names parameters are created and looked up with.
ParamNames == {"p1"}

\* What GET /environments may list: (game, id, environment name).
EnvRecords ==
    { [game |-> "Foo", id |-> 101, name |-> "Dev"],
      [game |-> "Foo", id |-> 102, name |-> "Live"],
      [game |-> "Bar", id |-> 102, name |-> "Staging"] }

\* The responses of GET /environments: lists of records with distinct ids.
EnvLists ==
    {<<>>} \cup { <<r>> : r \in EnvRecords }
           \cup { p \in EnvRecords \X EnvRecords : p[1].id # p[2].id }

\* Applications of the API key other than the one of EnvRecords' game
\* "Foo" (100): GET /event-parameters lists their parameters too.
OtherApplications == {101}

----------------------------------------------------------------------------
(* Python values *)

NoneVal == [kind |-> "None", rows |-> <<>>]

Table(rows) == [kind |-> "table", rows |-> rows]

\* The record of a public call: what was called with what, the statuses the
\* remote answered, the outcome, the POSTs sent, and whether the wrapper
\* printed its 'is added' / 'is removed' line.
Call(op, env_id, param_name, event_name, statuses, out, posts, reported) ==
    [op |-> op, env_id |-> env_id, param_name |-> param_name,
     event_name |-> event_name, statuses |-> statuses,
     kind |-> out.kind, exc |-> out.exc, value |-> out.value,
     posts |-> posts, reported |-> reported]

\* The outcome of a call: it returned None, returned a value, or raised.
ReturnNone == [kind |-> "None", exc |-> "", value |-> <<>>]

Return(v) == [kind |-> "value", exc |-> "", value |-> v]

Raise(e) == [kind |-> "raise", exc |-> e, value |-> <<>>]

RECURSIVE Flatten(_)
Flatten(ss) == IF ss = <<>> THEN <<>> ELSE Head(ss) \o Flatten(Tail(ss))

RECURSIVE SeqMax(_)
SeqMax(s) ==
    IF Len(s) = 1 THEN s[1]
    ELSE LET m == SeqMax(Tail(s)) IN IF s[1] > m THEN s[1] ELSE m

----------------------------------------------------------------------------
(* __init__, _get_token, game_list *)

\* _get_token: the idToken of a 200 answer, None otherwise.
GetToken(status) == IF status = 200 THEN "idToken" ELSE "None"

\* self._header = {'Authorization': f'Bearer {self._token}'}
HeaderOf(tok) == [Authorization |-> <<"Bearer", tok>>]

\* A faulty replace table, {'Dev': 1, 'Live': 1}: the Live offset is lost.
EnvInferLiveAsDev(name) ==
    CASE name = "Dev"  -> [isInt |-> TRUE, n |-> 1, s |-> ""]
      [] name = "Live" -> [isInt |-> TRUE, n |-> 1, s |-> ""]
      [] OTHER         -> [isInt |-> FALSE, n |-> 0, s |-> name]

\* Series.replace({'Dev': 1, 'Live': 2}) on one value: a named value becomes
\* its number, any other value stays the string it was.
EnvInfer(name) ==
    CASE name = "Dev"  -> [isInt |-> TRUE, n |-> 1, s |-> ""]
      [] name = "Live" -> [isInt |-> TRUE, n |-> 2, s |-> ""]
      [] OTHER         -> [isInt |-> FALSE, n |-> 0, s |-> name]

\* One row of the frame game_list builds.
GameRow(r) ==
    [GameName        |-> r.game,
     EnvironmentID   |-> r.id,
     EnvironmentName |-> r.name,
     ApplicationID   |-> r.id - EnvInfer(r.name).n]

\* game_list: None on a non-200 answer; naming three columns on the frame of
\* an empty list raises ValueError (it has no column); int - str raises
\* TypeError when a name was left unreplaced; else the frame with the
\* Application ID column.
game_list(status, envs) ==
    IF status # 200 THEN ReturnNone
    ELSE IF envs = <<>> THEN Raise("ValueError")
    ELSE IF \E i \in 1..Len(envs) : ~EnvInfer(envs[i].name).isInt
         THEN Raise("TypeError")
    ELSE Return(Table([ i \in 1..Len(envs) |-> GameRow(envs[i]) ]))

\* What __init__ stores in self._game_list from the outcome of game_list.
CachedDirectory(outcome) ==
    IF outcome.kind = "value" THEN outcome.value ELSE NoneVal

\* A faulty game_list that would store the frame it fetched in self._game_list.
DirectoryAfterGameListRefetched(cached, fetched) ==
    IF fetched.kind = "value" THEN fetched.value ELSE cached

\* The public game_list() returns the frame it built and assigns nothing to
\* self._game_list: the cached directory after the call is the cached one.
DirectoryAfterGameList(cached, fetched) == cached

----------------------------------------------------------------------------
(* pandas lookups on the cached directory *)

\* self._game_list['Environment ID'].tolist()
DirectoryIds(gl) == { gl.rows[i].EnvironmentID : i \in 1..Len(gl.rows) }

\* The index labels of the rows selected by _game_list['Environment ID']==env_id:
\* a boolean mask keeps each row's label, which is its 0-based position.
MatchingLabels(gl, env_id) ==
    { i - 1 : i \in { j \in 1..Len(gl.rows) : gl.rows[j].EnvironmentID = env_id } }

\* Series[0] on the selected rows: the integer index makes 0 a label, so the
\* lookup succeeds only when the row labelled 0 is among the selected ones.
HasLabel0(gl, env_id) == 0 \in MatchingLabels(gl, env_id)

\* Series.item(): exactly one selected row.
HasOneItem(gl, env_id) == Cardinality(MatchingLabels(gl, env_id)) = 1

\* The one row Series.item() reads.
ItemRow(gl, env_id) ==
    gl.rows[CHOOSE j \in 1..Len(gl.rows) : gl.rows[j].EnvironmentID = env_id]

----------------------------------------------------------------------------
(* _event_spec, event_list, event_details *)

\* _event_spec: None on a non-200 answer or an id outside the directory;
\* the 'Game connected' print evaluates [...]['Game Name'][0] first.
event_spec(gl, env_id, status, events) ==
    IF status # 200 THEN ReturnNone
    ELSE IF gl.kind = "None" THEN Raise("TypeError")
    ELSE IF env_id \notin DirectoryIds(gl) THEN ReturnNone
    ELSE IF ~HasLabel0(gl, env_id) THEN Raise("KeyError")
    ELSE Return(SelectSeq(events, LAMBDA e : e.environment = env_id))

NameIdPair(e) == <<e.name, e.id>>

event_list(gl, env_id, status, events) ==
    LET spec == event_spec(gl, env_id, status, events) IN
    IF spec.kind # "value" THEN spec
    ELSE Return([ i \in 1..Len(spec.value) |-> NameIdPair(spec.value[i]) ])

\* The rows one event contributes: one per parameter of its list.  The
\* parameter's 'name' column is renamed 'Event Name', its 'id' 'parameterID'.
DetailRows(env_id, e) ==
    [ i \in 1..Len(e.parameters) |->
        [EnvironmentID |-> env_id,
         eventName     |-> e.name,
         EventName     |-> e.parameters[i].name,
         parameterID   |-> e.parameters[i].id,
         required      |-> e.parameters[i].required] ]

\* event_details: pd.concat of one frame per event raises ValueError on an
\* empty list of frames ("No objects to concatenate").
event_details(gl, env_id, status, events) ==
    LET spec == event_spec(gl, env_id, status, events) IN
    IF spec.kind # "value" THEN spec
    ELSE IF spec.value = <<>> THEN Raise("ValueError")
    ELSE Return(Table(Flatten(
            [ i \in 1..Len(spec.value) |-> DetailRows(env_id, spec.value[i]) ])))

----------------------------------------------------------------------------
(* _get_applicationID, _parameter_spec, parameter_list, parameter_search *)

\* _get_applicationID: [...]['Application ID'][0], the same label lookup.
get_applicationID(gl, env_id) ==
    IF ~HasLabel0(gl, env_id) THEN Raise("KeyError")
    ELSE Return(gl.rows[1].ApplicationID)

parameter_spec(gl, env_id, status, params) ==
    IF status # 200 THEN ReturnNone
    ELSE IF gl.kind = "None" THEN Raise("TypeError")
    ELSE IF env_id \notin DirectoryIds(gl) THEN ReturnNone
    ELSE LET app == get_applicationID(gl, env_id) IN
         IF app.kind # "value" THEN app
         ELSE Return(SelectSeq(params, LAMBDA p : p.application = app.value))

ParameterRow(app, p) ==
    [ApplicationID |-> app, ParameterID |-> p.id, name |-> p.name]

\* parameter_list: pd.concat raises ValueError when the application has no
\* parameter at all.
parameter_list(gl, env_id, status, params) ==
    LET spec == parameter_spec(gl, env_id, status, params) IN
    IF spec.kind # "value" THEN spec
    ELSE IF spec.value = <<>> THEN Raise("ValueError")
    ELSE Return(Table(
            [ i \in 1..Len(spec.value) |->
                ParameterRow(get_applicationID(gl, env_id).value, spec.value[i]) ]))

SearchRow(env_id, p) ==
    [EnvironemntID |-> env_id, GameID |-> p.application,
     ParameterID |-> p.id, ParameterName |-> p.name]

parameter_search(gl, env_id, param_name, status, params) ==
    LET spec == parameter_spec(gl, env_id, status, params) IN
    IF spec.kind # "value" THEN spec
    ELSE LET found == SelectSeq(spec.value, LAMBDA p : p.name = param_name) IN
         Return(Table([ i \in 1..Len(found) |-> SearchRow(env_id, found[i]) ]))

----------------------------------------------------------------------------
(* The remote service, as far as the client's POSTs change it *)

\* POST /events answered 200: the event exists, with a fresh id and no parameter.
RemoteCreateEvent(events, body) ==
    Append(events, [id          |-> 10 + Len(events) + 1,
                    name        |-> body.name,
                    environment |-> body.environment,
                    parameters  |-> <<>>])

\* POST /event-parameters answered 200: the parameter exists, with an id of
\* the remote's own numbering.
RemoteCreateParam(params, body) ==
    Append(params, [id          |-> 20 + Len(params) + 1,
                    name        |-> body.name,
                    application |-> body.application])

\* POST /events/{event_id}/add/{param_id} answered 200: the parameter is in
\* the event's list, once.
RemoteLink(events, event_id, param_id, param_name, required) ==
    [ i \in 1..Len(events) |->
        IF events[i].id = event_id
           /\ \A k \in 1..Len(events[i].parameters) :
                 events[i].parameters[k].id # param_id
        THEN [events[i] EXCEPT !.parameters =
                 Append(@, [id |-> param_id, name |-> param_name,
                            required |-> required])]
        ELSE events[i] ]

\* POST /events/{event_id}/remove/{param_id} answered 200.
RemoteUnlink(events, event_id, param_id) ==
    [ i \in 1..Len(events) |->
        IF events[i].id = event_id
        THEN [events[i] EXCEPT !.parameters =
                 SelectSeq(@, LAMBDA q : q.id # param_id)]
        ELSE events[i] ]

\* The body of a 200 answer to the add POST: the event as it now is.
RemoteEvent(events, event_id) ==
    events[CHOOSE i \in 1..Len(events) : events[i].id = event_id]

----------------------------------------------------------------------------
(* add_event, add_parameter *)

\* What a mutating method hands back to its action: its outcome, the
\* statuses it received, the POSTs it sent, the remote's data afterwards,
\* and whether a wrapper printed its success line.
Done(out, statuses, posts, events, params) ==
    [out |-> out, statuses |-> statuses, posts |-> posts,
     events |-> events, params |-> params, reported |-> FALSE]

\* add_event never reads the directory: it POSTs whatever env_id it is given.
add_event(env_id, event_name, description, status, events, params) ==
    LET body == [name |-> event_name, description |-> description,
                 environment |-> env_id]
        post == [url |-> "events", body |-> body]
    IN  IF status # 200
        THEN Done(Return([created |-> FALSE, parameters |-> "None"]),
                  <<status>>, <<post>>, events, params)
        ELSE Done(Return([created |-> TRUE, parameters |-> "Not showing here."]),
                  <<status>>, <<post>>, RemoteCreateEvent(events, body), params)

\* The 'id' add_parameter writes into the body it submits.
SubmittedParamId == 1020234

NotANumber == [nan |-> TRUE, n |-> 0]

\* param_id = event_details(env_id)['parameterID'].max() + 1; the max of an
\* empty column is NaN.
CandidateParamId(details) ==
    IF details.rows = <<>> THEN NotANumber
    ELSE [nan |-> FALSE,
          n   |-> SeqMax([ i \in 1..Len(details.rows) |->
                             details.rows[i].parameterID ]) + 1]

\* body.update({'isCreated': ...}): the submitted body with one more key.
BodyUpdate(body, isCreated) ==
    [id          |-> body.id,
     name        |-> body.name,
     application |-> body.application,
     isCreated   |-> isCreated]

add_parameter(gl, env_id, param_name, s1, s2, events, params) ==
    LET details == event_details(gl, env_id, s1, events) IN
    IF details.kind = "None"
    THEN Done(Raise("TypeError"), <<s1>>, <<>>, events, params)
    ELSE IF details.kind = "raise"
    THEN Done(details, <<s1>>, <<>>, events, params)
    ELSE IF ~HasOneItem(gl, env_id)
    THEN Done(Raise("ValueError"), <<s1>>, <<>>, events, params)
    ELSE
    LET body == [id          |-> SubmittedParamId,
                 name        |-> param_name,
                 application |-> ItemRow(gl, env_id).ApplicationID]
        post == [url |-> "event-parameters", body |-> body]
    IN  IF s2 # 200
        THEN Done(Return(BodyUpdate(body, FALSE)),
                  <<s1, s2>>, <<post>>, events, params)
        ELSE Done(Return(BodyUpdate(body, TRUE)),
                  <<s1, s2>>, <<post>>, events, RemoteCreateParam(params, body))

----------------------------------------------------------------------------
(* _param_to_event, add_param_to_event, remove_param_from_event *)

param_to_event(gl, env_id, param_name, event_name, add_remove, required, s1, s2, s3, events, params) ==
    LET el == event_list(gl, env_id, s1, events) IN
    IF el.kind = "None"
    THEN Done(Raise("TypeError"), <<s1>>, <<>>, events, params)
    ELSE IF el.kind = "raise"
    THEN Done(el, <<s1>>, <<>>, events, params)
    ELSE
    LET event_id == SelectSeq(el.value, LAMBDA pr : pr[1] = event_name)
        ps == parameter_search(gl, env_id, param_name, s2, params)
    IN
    IF ps.kind = "None"
    THEN Done(Raise("TypeError"), <<s1, s2>>, <<>>, events, params)
    ELSE IF ps.kind = "raise"
    THEN Done(ps, <<s1, s2>>, <<>>, events, params)
    ELSE
    LET param_id == [ i \in 1..Len(ps.value.rows) |-> ps.value.rows[i].ParameterID ] IN
    IF Len(event_id) # 1
    THEN Done(ReturnNone, <<s1, s2>>, <<>>, events, params)
    ELSE IF Len(param_id) < 1
    THEN Done(ReturnNone, <<s1, s2>>, <<>>, events, params)
    ELSE IF Len(param_id) # 1
    THEN Done(Raise("ValueError"), <<s1, s2>>, <<>>, events, params)
    ELSE
    LET eid  == event_id[1][2]
        pid  == param_id[1]
        post == [url |-> add_remove, event_id |-> eid, param_id |-> pid,
                 body |-> IF add_remove = "add"
                          THEN [required |-> required] ELSE [required |-> FALSE]]
    IN
    IF s3 # 200
    THEN Done(Return([title |-> "error"]), <<s1, s2, s3>>, <<post>>, events, params)
    ELSE IF add_remove = "add"
    THEN LET after  == RemoteLink(events, eid, pid, param_name, required)
             result == SelectSeq(RemoteEvent(after, eid).parameters,
                                 LAMBDA q : q.name = param_name)
         IN  IF result = <<>>
             THEN Done(Raise("IndexError"), <<s1, s2, s3>>, <<post>>, after, params)
             ELSE Done(Return([param |-> result[1], FromEvent |-> event_name]),
                       <<s1, s2, s3>>, <<post>>, after, params)
    ELSE Done(Return([name |-> param_name, FromEvent |-> event_name]),
              <<s1, s2, s3>>, <<post>>, RemoteUnlink(events, eid, pid), params)

\* The wrappers print '... is added to event ...' / '... is removed from
\* event ...' and return the result whenever it is not None.
Reported(done) == [done EXCEPT !.reported = (done.out.kind = "value")]

add_param_to_event(gl, env_id, param_name, event_name, required, s1, s2, s3, events, params) ==
    Reported(param_to_event(gl, env_id, param_name, event_name, "add", required,
                            s1, s2, s3, events, params))

remove_param_from_event(gl, env_id, param_name, event_name, s1, s2, s3, events, params) ==
    Reported(param_to_event(gl, env_id, param_name, event_name, "remove", FALSE,
                            s1, s2, s3, events, params))

----------------------------------------------------------------------------
(* The state machine *)

\* The parameters the remote holds when the session is constructed.
InitParams ==
    {<<>>} \cup { <<[id |-> 21, name |-> n, application |-> a]>> :
                    n \in ParamNames, a \in OtherApplications }

\* The state when the constructor has returned: a constructor that raised
\* built no session.  A remote that refused the credentials answers the
\* 'Bearer None' request for the directory with a non-200 status too.
Init ==
    \E authStatus \in Statuses, envStatus \in Statuses, envs \in EnvLists :
        LET outcome == game_list(envStatus, envs) IN
        /\ authStatus # 200 => envStatus # 200
        /\ outcome.kind # "raise"
        /\ token = GetToken(authStatus)
        /\ header = HeaderOf(GetToken(authStatus))
        /\ gameList = CachedDirectory(outcome)
        /\ remoteEvents = <<>>
        /\ remoteParams \in InitParams
        /\ ret = Call("__init__", 0, "", "", <<authStatus, envStatus>>,
                      ReturnNone, <<>>, FALSE)

GameList ==
    \E status \in Statuses, envs \in EnvLists :
        LET outcome == game_list(status, envs) IN
        /\ gameList' = DirectoryAfterGameList(gameList, outcome)
        /\ ret' = Call("game_list", 0, "", "", <<status>>, outcome, <<>>, FALSE)
        /\ UNCHANGED <<token, header, remoteEvents, remoteParams>>

EventList ==
    \E env_id \in EnvIds, status \in Statuses :
        /\ ret' = Call("event_list", env_id, "", "", <<status>>,
                       event_list(gameList, env_id, status, remoteEvents), <<>>, FALSE)
        /\ UNCHANGED <<token, header, gameList, remoteEvents, remoteParams>>

EventDetails ==
    \E env_id \in EnvIds, status \in Statuses :
        /\ ret' = Call("event_details", env_id, "", "", <<status>>,
                       event_details(gameList, env_id, status, remoteEvents), <<>>, FALSE)
        /\ UNCHANGED <<token, header, gameList, remoteEvents, remoteParams>>

ParameterList ==
    \E env_id \in EnvIds, status \in Statuses :
        /\ ret' = Call("parameter_list", env_id, "", "", <<status>>,
                       parameter_list(gameList, env_id, status, remoteParams), <<>>, FALSE)
        /\ UNCHANGED <<token, header, gameList, remoteEvents, remoteParams>>

ParameterSearch ==
    \E env_id \in EnvIds, param_name \in ParamNames, status \in Statuses :
        /\ ret' = Call("parameter_search", env_id, param_name, "", <<status>>,
                       parameter_search(gameList, env_id, param_name, status, remoteParams),
                       <<>>, FALSE)
        /\ UNCHANGED <<token, header, gameList, remoteEvents, remoteParams>>

\* Every mutating method ends the same way: the remote holds what the
\* method's POSTs left, and the call is recorded.
Finish(op, env_id, param_name, event_name, done) ==
    /\ remoteEvents' = done.events
    /\ remoteParams' = done.params
    /\ ret' = Call(op, env_id, param_name, event_name, done.statuses,
                   done.out, done.posts, done.reported)
    /\ UNCHANGED <<token, header, gameList>>

AddEvent ==
    \E env_id \in EnvIds, event_name \in EventNames, status \in Statuses :
        /\ status = 200 => Len(remoteEvents) < MaxEvents
        /\ Finish("add_event", env_id, "", event_name,
                  add_event(env_id, event_name, "description", status,
                            remoteEvents, remoteParams))

AddParameter ==
    \E env_id \in EnvIds, param_name \in ParamNames, s1 \in Statuses, s2 \in Statuses :
        /\ s2 = 200 => Len(remoteParams) < MaxParams
        /\ Finish("add_parameter", env_id, param_name, "",
                  add_parameter(gameList, env_id, param_name, s1, s2,
                                remoteEvents, remoteParams))

AddParamToEvent ==
    \E env_id \in EnvIds, param_name \in ParamNames, event_name \in EventNames,
       required \in BOOLEAN, s1 \in Statuses, s2 \in Statuses, s3 \in Statuses :
        Finish("add_param_to_event", env_id, param_name, event_name,
               add_param_to_event(gameList, env_id, param_name, event_name, required,
                                  s1, s2, s3, remoteEvents, remoteParams))

RemoveParamFromEvent ==
    \E env_id \in EnvIds, param_name \in ParamNames, event_name \in EventNames,
       s1 \in Statuses, s2 \in Statuses, s3 \in Statuses :
        Finish("remove_param_from_event", env_id, param_name, event_name,
               remove_param_from_event(gameList, env_id, param_name, event_name,
                                       s1, s2, s3, remoteEvents, remoteParams))

Next ==
    \/ GameList
    \/ EventList
    \/ EventDetails
    \/ ParameterList
    \/ ParameterSearch
    \/ AddEvent
    \/ AddParameter
    \/ AddParamToEvent
    \/ RemoveParamFromEvent

Spec == Init /\ [][Next]_vars

----------------------------------------------------------------------------
(* Vocabulary of the properties *)

IdScopedOps ==
    {"event_list", "event_details", "parameter_list", "parameter_search",
     "add_event", "add_parameter", "add_param_to_event", "remove_param_from_event"}

LinkOps == {"add_param_to_event", "remove_param_from_event"}

ListingOps == {"event_list", "event_details", "parameter_list", "parameter_search"}

\* The call recorded in ret was made on a session that has a directory.
HasDirectory == gameList.kind = "table"

InDirectory == HasDirectory /\ ret.env_id \in DirectoryIds(gameList)

NotInDirectory == HasDirectory /\ ret.env_id \notin DirectoryIds(gameList)

\* The recorded call's environment is the directory's first row, the one row
\* on which the label lookups [...][0] of _event_spec and _get_applicationID
\* succeed.
AtFirstRow == HasDirectory /\ HasLabel0(gameList, ret.env_id)

\* Every remote call the recorded call made answered 200.
AllAnswered200 == \A i \in 1..Len(ret.statuses) : ret.statuses[i] = 200

SomeAnsweredNon200 == \E i \in 1..Len(ret.statuses) : ret.statuses[i] # 200

\* A null result, or an empty list or table.
NullOrEmpty ==
    \/ ret.kind = "None"
    \/ ret.kind = "value" /\ ret.op = "event_list" /\ ret.value = <<>>
    \/ /\ ret.kind = "value"
       /\ ret.op \in {"event_details", "parameter_list", "parameter_search"}
       /\ ret.value.rows = <<>>

\* The remote's events of the recorded call's environment, in remote order.
EventsOfEnv == SelectSeq(remoteEvents, LAMBDA e : e.environment = ret.env_id)

\* How many events of the environment carry the recorded event name.
EventMatches ==
    Cardinality({ i \in 1..Len(EventsOfEnv) : EventsOfEnv[i].name = ret.event_name })

\* How many parameters of the environment's application carry the recorded
\* parameter name.
ParamMatches ==
    Cardinality({ i \in 1..Len(remoteParams) :
        /\ remoteParams[i].name = ret.param_name
        /\ remoteParams[i].application = ItemRow(gameList, ret.env_id).ApplicationID })

----------------------------------------------------------------------------
(* The claims *)

\* C1: for an environment id that is not in the cached directory, every
\* id-scoped public operation returns a null/empty result, raises nothing and
\* sends no mutating POST.
C1_UnknownEnvironmentIsNull ==
    (ret.op \in IdScopedOps /\ NotInDirectory)
        => (NullOrEmpty /\ ret.posts = <<>>)

\* C2: for an environment id of the directory, at any row, and a 200 answer,
\* event_list returns exactly the remote's events of that environment as
\* (name, id) pairs in remote order.
C2_EventListAtAnyRow ==
    (ret.op = "event_list" /\ InDirectory /\ AllAnswered200)
        => /\ ret.kind = "value"
           /\ ret.value = [ i \in 1..Len(EventsOfEnv) |->
                              <<EventsOfEnv[i].name, EventsOfEnv[i].id>> ]

\* A directory satisfies the derivation rule of C3.
DerivationHolds(table) ==
    \A i \in 1..Len(table.rows) :
        table.rows[i].ApplicationID =
            table.rows[i].EnvironmentID
              - (IF table.rows[i].EnvironmentName = "Dev" THEN 1 ELSE 2)

\* C3: in every directory game_list builds (the one the constructor caches
\* and the one a later call returns), Application ID is Environment ID minus
\* 1 for "Dev" and minus 2 otherwise.
C3_ApplicationIdDerivation ==
    /\ HasDirectory => DerivationHolds(gameList)
    /\ (ret.op = "game_list" /\ ret.kind = "value") => DerivationHolds(ret.value)

\* C3 witness: game_list has returned a directory with a Dev and a Live row.
C3_Witness ==
    /\ ret.op = "game_list"
    /\ ret.kind = "value"
    /\ \E i, j \in 1..Len(ret.value.rows) :
          /\ ret.value.rows[i].EnvironmentName = "Dev"
          /\ ret.value.rows[j].EnvironmentName = "Live"

\* C4: add_parameter returns a record in both outcomes of the create POST,
\* isCreated true on 200 and the submitted body with isCreated false
\* otherwise, for every environment of the directory, also one without
\* events or without parameters.  Stated for the directory's first
\* environment, where the failure of C2 plays no part.
C4_AddParameterReturnsRecord ==
    (ret.op = "add_parameter" /\ AtFirstRow /\ ret.statuses[1] = 200)
        => /\ ret.kind = "value"
           /\ Len(ret.statuses) = 2
           /\ Len(ret.posts) = 1
           /\ ret.value.id = ret.posts[1].body.id
           /\ ret.value.name = ret.posts[1].body.name
           /\ ret.value.application = ret.posts[1].body.application
           /\ ret.value.isCreated = (ret.statuses[2] = 200)

\* C5: the link/unlink POST is sent only when the event name and the
\* parameter name each resolve to exactly one id; otherwise the operation
\* returns None, raises nothing and sends no POST.  Stated for the
\* directory's first environment, where the failure of C2 plays no part.
C5_UnresolvedNameIsNull ==
    (/\ ret.op \in LinkOps
     /\ AtFirstRow
     /\ AllAnswered200
     /\ (EventMatches # 1 \/ ParamMatches # 1))
        => (ret.kind = "None" /\ ret.posts = <<>>)

\* C6: whenever a remote call of a listing or linking operation answers
\* non-200, the operation returns a null/empty result and is not reported as
\* 'added' / 'removed'.
C6_RemoteFailureIsNull ==
    (ret.op \in ListingOps \cup LinkOps /\ SomeAnsweredNon200)
        => (NullOrEmpty /\ ~ret.reported)

\* C7: for an environment of the directory, names that each resolve to
\* exactly one id and a remote that answers 200, add_param_to_event and
\* remove_param_from_event return a non-null result, whether or not the pair
\* is already linked.
C7_LinkThenUnlinkSucceed ==
    (/\ ret.op \in LinkOps
     /\ InDirectory
     /\ AllAnswered200
     /\ EventMatches = 1
     /\ ParamMatches = 1)
        => ret.kind = "value"

\* C8: no public operation changes the token, the authorization header or
\* the cached directory: each step leaves all three as the constructor set
\* them.
C8_SessionReadOnly ==
    [][token' = token /\ header' = header /\ gameList' = gameList]_vars

\* C8 witness: game_list has returned a directory that differs from the
\* cached one, which still holds the constructor's rows.
C8_Witness ==
    /\ ret.op = "game_list"
    /\ ret.kind = "value"
    /\ HasDirectory
    /\ ret.value # gameList

\* The candidate id add_parameter computed for the recorded call.
RecordedCandidate ==
    CandidateParamId(event_details(gameList, ret.env_id, 200, remoteEvents).value)

\* C9: the 'id' of the body add_parameter POSTs is the candidate it computed,
\* max(parameter ids in the environment's events) + 1.  Stated for events
\* that carry parameters, so that the candidate is a number.
C9_SubmittedIdIsCandidate ==
    (ret.op = "add_parameter" /\ ret.posts # <<>> /\ ~RecordedCandidate.nan)
        => ret.posts[1].body.id = RecordedCandidate.n

\* The number of (event, parameter) pairs of a list of events.
RECURSIVE PairCount(_)
PairCount(events) ==
    IF events = <<>> THEN 0
    ELSE Len(Head(events).parameters) + PairCount(Tail(events))

\* C10: for an environment of the directory and a 200 answer, event_details
\* returns a table with exactly one row per (event, parameter) pair, each
\* carrying its event's name; an environment without events gives an empty
\* table.  Stated for the directory's first environment, where the failure
\* of C2 plays no part.
C10_EventDetailsRowPerPair ==
    (ret.op = "event_details" /\ AtFirstRow /\ AllAnswered200)
        => /\ ret.kind = "value"
           /\ Len(ret.value.rows) = PairCount(EventsOfEnv)
           /\ \A i \in 1..Len(ret.value.rows) :
                 \E k \in 1..Len(EventsOfEnv) :
                    /\ EventsOfEnv[k].name = ret.value.rows[i].eventName
                    /\ \E q \in 1..Len(EventsOfEnv[k].parameters) :
                          EventsOfEnv[k].parameters[q].id = ret.value.rows[i].parameterID

====
